---- MODULE Spec2Model ----
(***************************************************************************)
(* Second-factor enrollment, verification and session gating of            *)
(* routes/account.js (wildduck-webmail), with the remember-device token.   *)
(*                                                                         *)
(* The route handlers and generate2faRemeberToken are translated from      *)
(* routes/account.js.  lib/passport (login, checkLogin, logout), the       *)
(* api-client with the account API behind it (the Registry and the factor  *)
(* provider) and the token verifier are not part of routes/account.js;     *)
(* they are modelled from the specification's sections 4.1, 4.2, 4.3, 4.5. *)
(***************************************************************************)
EXTENDS Integers, Sequences, FiniteSets, TLC

(***************************************************************************)
(* Bounds of the model.                                                    *)
(***************************************************************************)
\* Date.now() of the first state; times run StartTime .. StartTime + MaxTicks,
\* so that the hexadecimal timestamp has one digit at first and two later.
StartTime == 14
MaxTicks == 3
\* The expiry window of the token verifier (a configuration parameter).
MaxAge == 1
\* Number of API calls that may be awaiting their callback at once.
MaxInflight == 1

\* crypto.randomBytes(6)
NonceBytes == 6

Accounts == {"a1", "b2"}
Sessions == {1, 2}
NoUser == "none"
NoToken == << >>

(***************************************************************************)
(* Text.  A string is a sequence of one-character strings.                 *)
(***************************************************************************)
HexDigits == <<"0", "1", "2", "3", "4", "5", "6", "7",
               "8", "9", "a", "b", "c", "d", "e", "f">>
HexSet == {HexDigits[i] : i \in 1..16}
Sep == <<":", ":">>

\* Number.prototype.toString(16): lower case, no leading zeros.
RECURSIVE ToHex(_)
ToHex(n) ==
    IF n < 16 THEN <<HexDigits[n + 1]>>
    ELSE ToHex(n \div 16) \o <<HexDigits[(n % 16) + 1]>>

HexValues == [c \in HexSet |-> (CHOOSE i \in 1..16 : HexDigits[i] = c) - 1]
HexValue(c) == HexValues[c]

\* parseInt(str, 16) of a string of hexadecimal digits; -1 stands for NaN
\* (an empty string, or a string holding another character).
RECURSIVE ParseHexFrom(_, _)
ParseHexFrom(str, acc) ==
    IF str = << >> THEN acc
    ELSE ParseHexFrom(Tail(str), acc * 16 + HexValue(Head(str)))

ParseHex(str) ==
    IF str = << >> \/ \E i \in 1..Len(str) : str[i] \notin HexSet THEN -1
    ELSE ParseHexFrom(str, 0)

\* Buffer.prototype.toString('hex'): two digits for every byte.
BytesToHex(bytes) ==
    [j \in 1..(2 * Len(bytes)) |->
        IF j % 2 = 1 THEN HexDigits[(bytes[(j + 1) \div 2] \div 16) + 1]
        ELSE HexDigits[(bytes[j \div 2] % 16) + 1]]

\* Array.prototype.join('::')
RECURSIVE Join(_)
Join(parts) ==
    IF Len(parts) = 0 THEN << >>
    ELSE IF Len(parts) = 1 THEN parts[1]
    ELSE parts[1] \o Sep \o Join(Tail(parts))

\* String.prototype.split('::'): left to right, separators do not overlap.
\* SplitFrom(str, i, start): the parts of str from position start on, the
\* text before position i holding no separator.
RECURSIVE SplitFrom(_, _, _)
SplitFrom(str, i, start) ==
    IF i > Len(str) THEN <<SubSeq(str, start, Len(str))>>
    ELSE IF i < Len(str) /\ str[i] = Sep[1] /\ str[i + 1] = Sep[2]
         THEN <<SubSeq(str, start, i - 1)>> \o SplitFrom(str, i + 2, i + 2)
         ELSE SplitFrom(str, i + 1, start)

Split(str) == SplitFrom(str, 1, 1)

(***************************************************************************)
(* Token codec.                                                            *)
(***************************************************************************)
\* config.totp.secret, the process-wide signing secret.
TotpSecret == <<"5", "c">>

\* Every character a text of the model may hold: the hexadecimal digits, the
\* colon, and one letter that is no hexadecimal digit.
Alphabet == HexDigits \o <<":", "g">>
CharCodes == [c \in {Alphabet[i] : i \in 1..Len(Alphabet)} |->
                CHOOSE i \in 1..Len(Alphabet) : Alphabet[i] = c]
CharCode(c) == CharCodes[c]

\* The account identifiers as texts (hexadecimal object ids of one length).
UserChars == [u \in Accounts |-> IF u = "a1" THEN <<"a", "1">> ELSE <<"b", "2">>]

\* crypto.createHmac('sha256', key).update(msg).digest('hex').  The keyed hash
\* is idealised as collision free: the digest is the hexadecimal encoding of
\* the character codes of the key followed by those of the message, so two
\* digests are equal exactly when key and message are.
Hmac(key, msg) ==
    LET text == key \o msg
    IN  BytesToHex([i \in 1..Len(text) |-> CharCode(text[i])])

\* A mutant: the key is the signing secret alone, without the account.
TokenHashNoUser(user, valueStr) == Hmac(TotpSecret, valueStr)

\* A mutant: the key is the signing secret followed by the account, with no
\* colon between them.
TokenHashNoColon(user, valueStr) == Hmac(TotpSecret \o UserChars[user], valueStr)

\* The hash of generate2faRemeberToken: key config.totp.secret + ':' + user.
TokenHash(user, valueStr) == Hmac(TotpSecret \o <<":">> \o UserChars[user], valueStr)

\* Number.prototype.toString(10)
RECURSIVE ToDec(_)
ToDec(n) ==
    IF n < 10 THEN <<HexDigits[n + 1]>>
    ELSE ToDec(n \div 10) \o <<HexDigits[(n % 10) + 1]>>

\* A mutant: the hash covers the nonce alone.
Generate2faRemeberTokenAtNonceOnly(user, time, nonce) ==
    LET parts == <<ToHex(time), BytesToHex(nonce)>>
        valueStr == Join(parts)
        hash == TokenHash(user, BytesToHex(nonce))
    IN  valueStr \o Sep \o hash

\* A mutant: the time is written in decimal.
Generate2faRemeberTokenAtDecimal(user, time, nonce) ==
    LET parts == <<ToDec(time), BytesToHex(nonce)>>
        valueStr == Join(parts)
        hash == TokenHash(user, valueStr)
    IN  valueStr \o Sep \o hash

\* generate2faRemeberToken(user) at Date.now() = time with randomBytes = nonce.
Generate2faRemeberTokenAt(user, time, nonce) ==
    LET parts == <<ToHex(time), BytesToHex(nonce)>>
        valueStr == Join(parts)
        hash == TokenHash(user, valueStr)
    IN  valueStr \o Sep \o hash

\* Verify(token, accountUsername, accountId, secretKey, maxAge) of the
\* specification, section 4.1: three parts, the signature recomputed from the
\* first two and compared with the third, and the age checked.  A token that
\* does not split into three parts is invalid.
VerifyToken(token, user, time) ==
    LET parts == Split(token)
    IN  /\ Len(parts) = 3
        /\ TokenHash(user, Join(<<parts[1], parts[2]>>)) = parts[3]
        /\ ParseHex(parts[1]) >= 0
        /\ ~(time - ParseHex(parts[1]) > MaxAge)

\* The random nonces the model draws: NonceBytes bytes, all alike.
NonceValues == {10, 241}
Nonces == {[i \in 1..NonceBytes |-> b] : b \in NonceValues}

(***************************************************************************)
(* Request inputs.                                                         *)
(***************************************************************************)
Absent == "absent"
AbsentToken == <<"absent">>
Digits == {HexDigits[i] : i \in 1..10}

\* Secrets the TOTP provider generates, and the 6-digit code that matches a
\* secret (the time dependence of the code is left out: a code either is the
\* current code of a secret or it is not).
NumSecrets == 2
Secrets == 1..NumSecrets
CodeFor(k) == [i \in 1..6 |-> HexDigits[k + 1]]

\* The values of the "token" field the model sends: the code of each secret,
\* 000000, and texts of another shape (too short, not all digits, field
\* missing).
TokenInputs ==
    {CodeFor(k) : k \in 0..NumSecrets}
    \cup { [i \in 1..5 |-> "1"], <<"1", "1", "g", "1", "1", "1">>, AbsentToken }

\* The values of the "remember2fa" field: a truthy one, the field missing
\* (the default, false), and a text that is neither truthy nor falsy.
RememberInputs == {"on", Absent, "junk"}

\* The security-key response of the client: whether its signature (or its
\* registration data) is what the provider expects, and the errorCode field.
KeyInputs ==
    { [sig |-> "good", errorCode |-> Absent],
      [sig |-> "bad", errorCode |-> Absent],
      [sig |-> "bad", errorCode |-> "5"],
      [sig |-> "good", errorCode |-> "junk"] }

\* Joi.string().length(6).regex(/^[0-9]+$/), with or without .required()
TokenSchemaOk(token, required) ==
    IF token = AbsentToken THEN ~required
    ELSE Len(token) = 6 /\ \A i \in 1..Len(token) : token[i] \in Digits

\* Joi.boolean().truthy([..., 'on', ...]).falsy([..., 'off', ...]).default(false)
RememberSchemaOk(remember) == remember \in {"on", "off", Absent}
RememberValue(remember) == remember = "on"

\* Joi.number() of the errorCode field
ErrorCodeSchemaOk(errorCode) == errorCode \in {Absent, "5"}

(***************************************************************************)
(* State.                                                                  *)
(***************************************************************************)
VARIABLES
    u2fEnabled,  \* config.u2f.enabled
    registry,    \* the account API's factor records of every account
    session,     \* req.session and req.user of every session id
    inflight,    \* API calls whose callback has not run yet
    now,         \* Date.now()
    jar,         \* per account, the last remember2fa value handed out
    resp,        \* observer: the response of the last request answered
    hist,        \* observer: per session, what happened since its last login
    probe,       \* observer: req.cookies.remember2fa of the login just made
    trail        \* observer: the body of the last request made

core == <<u2fEnabled, registry, session, inflight, now, jar>>
vars == <<u2fEnabled, registry, session, inflight, now, jar, resp, hist, probe, trail>>

NoFactors == [totpActive |-> 0, totpPending |-> 0, u2fActive |-> FALSE, u2fPending |-> FALSE]
NoSession == [user |-> NoUser, require2fa |-> FALSE]
NoCookie == [value |-> NoToken, at |-> 0]
NoResp == [op |-> "none", sess |-> 0, result |-> "none", token |-> NoToken]
NoTrail == [op |-> "none", sess |-> 0, code |-> NoToken, up |-> TRUE, superseded |-> 0]

\* GetAccount(accountId).enabled2faKinds is not empty
HasActive(a) == registry[a].totpActive # 0 \/ registry[a].u2fActive

Reply(op, s, result, token) == [op |-> op, sess |-> s, result |-> result, token |-> token]

Init ==
    /\ u2fEnabled \in BOOLEAN
    /\ registry = [a \in Accounts |-> NoFactors]
    /\ session = [s \in Sessions |-> NoSession]
    /\ inflight = {}
    /\ now = StartTime
    /\ jar = [a \in Accounts |-> NoCookie]
    /\ resp = NoResp
    /\ hist = [s \in Sessions |-> "none"]
    /\ probe = NoToken
    /\ trail = NoTrail

(***************************************************************************)
(* lib/passport and the Session Gate (specification, section 4.5).         *)
(***************************************************************************)
\* passport.checkLogin / IsSatisfied(sessionId): a user is logged in and no
\* second factor is outstanding.
CheckLogin(s) == session[s].user # NoUser /\ ~session[s].require2fa

\* RequireSecondFactor at password-authentication time: the account has an
\* Active factor and the remember2fa cookie of the request is no valid token.
LoginGate(a, cookie) == HasActive(a) /\ ~VerifyToken(cookie, a, now)

\* passport.login with the correct password of account a
Login(s, a, cookie) ==
    /\ session' = [session EXCEPT ![s] = [user |-> a, require2fa |-> LoginGate(a, cookie)]]
    /\ UNCHANGED <<u2fEnabled, registry, inflight, now, jar>>

LoginReply(s) == Reply("login", s, "ok", NoToken)

LoginHist(s, a, cookie) ==
    [hist EXCEPT ![s] = IF ~HasActive(a) THEN "nofactor"
                        ELSE IF LoginGate(a, cookie) THEN "gated" ELSE "presented"]

(***************************************************************************)
(* The account API: Registry and factor provider (specification, sections  *)
(* 4.2 and 4.3).  Every call can fail with ProviderUnavailable (up false). *)
(***************************************************************************)
\* BeginEnrollment(accountId, TOTP) with the secret of TOTP.GenerateSecret
RegBeginTotp(reg, a, k) == [reg EXCEPT ![a].totpPending = k]

\* ConfirmEnrollment(accountId, TOTP)
RegConfirmTotp(reg, a) ==
    [reg EXCEPT ![a].totpActive = reg[a].totpPending, ![a].totpPending = 0]

\* DisableAll(accountId)
RegDisableAll(reg, a) == [reg EXCEPT ![a] = NoFactors]

\* BeginEnrollment(accountId, SecurityKey)
RegBeginU2f(reg, a) == [reg EXCEPT ![a].u2fPending = TRUE]

\* ConfirmEnrollment(accountId, SecurityKey)
RegConfirmU2f(reg, a) == [reg EXCEPT ![a].u2fActive = TRUE, ![a].u2fPending = FALSE]

\* Disable(accountId, SecurityKey)
RegDisableU2f(reg, a) == [reg EXCEPT ![a].u2fActive = FALSE, ![a].u2fPending = FALSE]

\* TOTP.CheckCode(secret, code)
CheckCode(secret, code) == code = CodeFor(secret)

\* A secret of TOTP.GenerateSecret: one the account does not hold already.
FreshSecrets(a) == Secrets \ {registry[a].totpPending, registry[a].totpActive}

\* apiClient['2fa'].verifyTotp: the outcome of the confirmation step
ApiVerifyTotp(a, code, up) ==
    IF ~up THEN "ProviderUnavailable"
    ELSE IF registry[a].totpPending = 0 THEN "NotFound"
    ELSE IF ~CheckCode(registry[a].totpPending, code) THEN "VerificationFailed"
    ELSE "ok"

\* apiClient['2fa'].checkTotp: err (ProviderUnavailable, NotFound when there
\* is no Active TOTP enrollment), or the result of the check ("ok", "fail")
ApiCheckTotp(a, code, up) ==
    IF ~up THEN "ProviderUnavailable"
    ELSE IF registry[a].totpActive = 0 THEN "NotFound"
    ELSE IF CheckCode(registry[a].totpActive, code) THEN "ok" ELSE "fail"

\* apiClient['2fa'].startU2f: SecurityKey.BeginAuthentication
ApiStartU2f(a, up) ==
    IF ~up THEN "ProviderUnavailable"
    ELSE IF ~registry[a].u2fActive THEN "NotFound" ELSE "ok"

\* apiClient['2fa'].checkU2f: SecurityKey.FinishAuthentication
ApiCheckU2f(a, key, up) ==
    IF ~up THEN "ProviderUnavailable"
    ELSE IF ~registry[a].u2fActive THEN "NotFound"
    ELSE IF key.sig = "good" /\ key.errorCode = Absent THEN "ok" ELSE "fail"

\* apiClient['2fa'].enableU2f: SecurityKey.FinishRegistration
ApiEnableU2f(a, key, up) ==
    IF ~up THEN "ProviderUnavailable"
    ELSE IF ~registry[a].u2fPending THEN "NotFound"
    ELSE IF key.sig = "good" /\ key.errorCode = Absent THEN "ok"
    ELSE "VerificationFailed"

(***************************************************************************)
(* Route handlers of routes/account.js.  An action is the handler's effect *)
(* on the state; its Reply is what the handler answers, its Hist what the  *)
(* session's history becomes.                                              *)
(***************************************************************************)
Room == Cardinality(inflight) < MaxInflight

Call(op, s, a, out, remember) ==
    [op |-> op, sess |-> s, user |-> a, out |-> out, remember |-> remember]

\* router.get('/logout')
Logout(s) ==
    /\ session' = [session EXCEPT ![s] = [user |-> NoUser, require2fa |-> FALSE]]
    /\ UNCHANGED <<u2fEnabled, registry, inflight, now, jar>>

LogoutReply(s) == Reply("logout", s, "ok", NoToken)
LogoutHist(s) == [hist EXCEPT ![s] = "none"]

\* router.post('/enable-2fa'): setupTotp is called whether or not the body
\* passed the schema (showErrors calls it too).
EnableTotpOut(s, token, up) ==
    IF ~CheckLogin(s) THEN "LoginRequired"
    ELSE IF ~up THEN "ProviderUnavailable"
    ELSE IF TokenSchemaOk(token, FALSE) THEN "ok" ELSE "ValidationError"

\* A mutant: setupTotp keeps a Pending enrollment that exists already.
EnableTotpKeeps(s, token, up, k) ==
    LET begins == CheckLogin(s) /\ up IN
    /\ begins => k \in FreshSecrets(session[s].user)
    /\ registry' = IF begins /\ registry[session[s].user].totpPending = 0
                   THEN RegBeginTotp(registry, session[s].user, k) ELSE registry
    /\ UNCHANGED <<u2fEnabled, session, inflight, now, jar>>

\* A mutant: setupTotp makes the secret it generates Active at once.
EnableTotpActivates(s, token, up, k) ==
    LET begins == CheckLogin(s) /\ up IN
    /\ begins => k \in FreshSecrets(session[s].user)
    /\ registry' = IF begins
                   THEN [registry EXCEPT ![session[s].user].totpActive = k] ELSE registry
    /\ UNCHANGED <<u2fEnabled, session, inflight, now, jar>>

EnableTotp(s, token, up, k) ==
    LET begins == CheckLogin(s) /\ up IN
    /\ begins => k \in FreshSecrets(session[s].user)
    /\ registry' = IF begins THEN RegBeginTotp(registry, session[s].user, k) ELSE registry
    /\ UNCHANGED <<u2fEnabled, session, inflight, now, jar>>

EnableTotpReply(s, token, up) == Reply("enable-2fa", s, EnableTotpOut(s, token, up), NoToken)

\* router.post('/verify-totp')
\* A mutant: the callback of verifyTotp does not look at err.
VerifyTotpOutNoErr(s, token, up) ==
    IF ~TokenSchemaOk(token, TRUE) THEN "ValidationError"
    ELSE IF session[s].user = NoUser THEN "ServerError"
    ELSE "ok"

VerifyTotpOut(s, token, up) ==
    IF ~TokenSchemaOk(token, TRUE) THEN "ValidationError"
    ELSE IF session[s].user = NoUser THEN "ServerError"
    ELSE ApiVerifyTotp(session[s].user, token, up)

VerifyTotp(s, token, up) ==
    /\ registry' = IF VerifyTotpOut(s, token, up) = "ok"
                   THEN RegConfirmTotp(registry, session[s].user) ELSE registry
    /\ UNCHANGED <<u2fEnabled, session, inflight, now, jar>>

VerifyTotpReply(s, token, up) == Reply("verify-totp", s, VerifyTotpOut(s, token, up), NoToken)

\* router.post('/disable-2fa'), up to the call of apiClient['2fa'].disable
\* A mutant: disable removes the Active TOTP record and nothing else.
Disable2faPartial(s, up) ==
    IF ~CheckLogin(s)
    THEN UNCHANGED core
    ELSE /\ Room
         /\ registry' = IF up THEN [registry EXCEPT ![session[s].user].totpActive = 0]
                        ELSE registry
         /\ inflight' = inflight \cup
                {Call("disable-2fa", s, session[s].user,
                      IF up THEN "ok" ELSE "ProviderUnavailable", FALSE)}
         /\ UNCHANGED <<u2fEnabled, session, now, jar>>

Disable2fa(s, up) ==
    IF ~CheckLogin(s)
    THEN UNCHANGED core
    ELSE /\ Room
         /\ registry' = IF up THEN RegDisableAll(registry, session[s].user) ELSE registry
         /\ inflight' = inflight \cup
                {Call("disable-2fa", s, session[s].user,
                      IF up THEN "ok" ELSE "ProviderUnavailable", FALSE)}
         /\ UNCHANGED <<u2fEnabled, session, now, jar>>

Disable2faReply(s) ==
    IF ~CheckLogin(s) THEN Reply("disable-2fa", s, "LoginRequired", NoToken) ELSE resp

\* router.post('/disable-2fa'), the callback of apiClient['2fa'].disable
Disable2faDone(r) ==
    /\ r \in inflight /\ r.op = "disable-2fa"
    /\ inflight' = inflight \ {r}
    /\ session' = IF r.out = "ok" THEN [session EXCEPT ![r.sess].require2fa = FALSE]
                  ELSE session
    /\ UNCHANGED <<u2fEnabled, registry, now, jar>>

Disable2faDoneReply(r) == Reply(r.op, r.sess, r.out, NoToken)

Disable2faDoneHist(r) ==
    IF r.out = "ok" /\ hist[r.sess] # "presented"
    THEN [hist EXCEPT ![r.sess] = "disabled"] ELSE hist

\* The callbacks of checkTotp and checkU2f go on to the success branch when
\* there is no err and the result is positive.
\* A mutant: the check of the result is left out, only err is looked at.
CheckTotpVerifiedNoResult(out) == out \in {"ok", "fail"}

CheckTotpVerified(out) == out = "ok"

\* A mutant: data.success is not looked at.
CheckU2fVerifiedNoSuccess(out) == out \in {"ok", "fail"}

CheckU2fVerified(out) == out = "ok"

\* req.session.require2fa = false of the two success branches
\* A mutant: the success branch clears every session of the account.
CheckTotpSessionAll(s) ==
    [t \in Sessions |-> IF session[t].user = session[s].user
                        THEN [session[t] EXCEPT !.require2fa = FALSE] ELSE session[t]]

\* A mutant: the success branch does not touch the session.
CheckTotpSessionKept(s) == session

CheckTotpSession(s) == [session EXCEPT ![s].require2fa = FALSE]
CheckU2fSession(s) == [session EXCEPT ![s].require2fa = FALSE]

\* if (remember2fa) of the two success branches
CheckTotpMints(remember) == remember
\* A mutant: the token is minted whether or not remember2fa was asked for.
CheckU2fMintsAlways(remember) == TRUE

CheckU2fMints(remember) == remember

\* What the failure branches answer: err.message, or 'Could not verify ...'
\* A mutant: a check that fails is answered as an outage of the provider.
CheckErrorOutage(out) == IF out = "fail" THEN "ProviderUnavailable" ELSE out

CheckError(out) == IF out = "fail" THEN "VerificationFailed" ELSE out

\* router.post('/check-totp'), up to the call of apiClient['2fa'].checkTotp
CheckTotpOut(s, token, remember) ==
    IF ~(TokenSchemaOk(token, TRUE) /\ RememberSchemaOk(remember)) THEN "ValidationError"
    ELSE IF session[s].user = NoUser THEN "ServerError"
    ELSE "called"

CheckTotp(s, token, remember, up) ==
    IF CheckTotpOut(s, token, remember) # "called"
    THEN UNCHANGED core
    ELSE /\ Room
         /\ inflight' = inflight \cup
                {Call("check-totp", s, session[s].user,
                      ApiCheckTotp(session[s].user, token, up), RememberValue(remember))}
         /\ UNCHANGED <<u2fEnabled, registry, session, now, jar>>

CheckTotpReply(s, token, remember) ==
    IF CheckTotpOut(s, token, remember) # "called"
    THEN Reply("check-totp", s, CheckTotpOut(s, token, remember), NoToken)
    ELSE resp

\* router.post('/check-totp'), the callback of apiClient['2fa'].checkTotp
CheckTotpValue(r, nonce) ==
    IF CheckTotpVerified(r.out) /\ CheckTotpMints(r.remember)
    THEN Generate2faRemeberTokenAt(r.user, now, nonce) ELSE NoToken

CheckTotpDone(r, nonce) ==
    /\ r \in inflight /\ r.op = "check-totp"
    /\ inflight' = inflight \ {r}
    /\ jar' = IF CheckTotpValue(r, nonce) # NoToken
              THEN [jar EXCEPT ![r.user] = [value |-> CheckTotpValue(r, nonce), at |-> now]]
              ELSE jar
    /\ session' = IF CheckTotpVerified(r.out) THEN CheckTotpSession(r.sess) ELSE session
    /\ UNCHANGED <<u2fEnabled, registry, now>>

CheckTotpDoneReply(r, nonce) ==
    Reply(r.op, r.sess, IF CheckTotpVerified(r.out) THEN "ok" ELSE CheckError(r.out),
          CheckTotpValue(r, nonce))

CheckTotpDoneHist(r) ==
    IF r.out = "ok" THEN [hist EXCEPT ![r.sess] = "presented"] ELSE hist

\* if (!config.u2f.enabled), the first statement of every security-key route
\* A mutant: the routes do not look at config.u2f.enabled.
U2fDisabledNever == FALSE

U2fDisabled == ~u2fEnabled

\* router.post('/start-u2f')
StartU2fOut(s, up) ==
    IF U2fDisabled THEN "MethodDisabled"
    ELSE IF session[s].user = NoUser THEN "ServerError"
    ELSE ApiStartU2f(session[s].user, up)

StartU2f(s, up) == UNCHANGED core

StartU2fReply(s, up) == Reply("start-u2f", s, StartU2fOut(s, up), NoToken)

\* router.post('/check-u2f'), up to the call of apiClient['2fa'].checkU2f
CheckU2fOut(s, key, remember) ==
    IF U2fDisabled THEN "MethodDisabled"
    ELSE IF ~(ErrorCodeSchemaOk(key.errorCode) /\ RememberSchemaOk(remember))
    THEN "ValidationError"
    ELSE IF session[s].user = NoUser THEN "ServerError"
    ELSE "called"

CheckU2f(s, key, remember, up) ==
    IF CheckU2fOut(s, key, remember) # "called"
    THEN UNCHANGED core
    ELSE /\ Room
         /\ inflight' = inflight \cup
                {Call("check-u2f", s, session[s].user,
                      ApiCheckU2f(session[s].user, key, up), RememberValue(remember))}
         /\ UNCHANGED <<u2fEnabled, registry, session, now, jar>>

CheckU2fReply(s, key, remember) ==
    IF CheckU2fOut(s, key, remember) # "called"
    THEN Reply("check-u2f", s, CheckU2fOut(s, key, remember), NoToken)
    ELSE resp

\* router.post('/check-u2f'), the callback of apiClient['2fa'].checkU2f
CheckU2fValue(r, nonce) ==
    IF CheckU2fVerified(r.out) /\ CheckU2fMints(r.remember)
    THEN Generate2faRemeberTokenAt(r.user, now, nonce) ELSE NoToken

CheckU2fDone(r, nonce) ==
    /\ r \in inflight /\ r.op = "check-u2f"
    /\ inflight' = inflight \ {r}
    /\ jar' = IF CheckU2fValue(r, nonce) # NoToken
              THEN [jar EXCEPT ![r.user] = [value |-> CheckU2fValue(r, nonce), at |-> now]]
              ELSE jar
    /\ session' = IF CheckU2fVerified(r.out) THEN CheckU2fSession(r.sess) ELSE session
    /\ UNCHANGED <<u2fEnabled, registry, now>>

CheckU2fDoneReply(r, nonce) ==
    Reply(r.op, r.sess, IF CheckU2fVerified(r.out) THEN "ok" ELSE CheckError(r.out),
          CheckU2fValue(r, nonce))

CheckU2fDoneHist(r) ==
    IF r.out = "ok" THEN [hist EXCEPT ![r.sess] = "presented"] ELSE hist

\* router.post('/enable-u2f'): renders the registration page
EnableU2fPageOut(s) ==
    IF ~CheckLogin(s) THEN "LoginRequired"
    ELSE IF U2fDisabled THEN "MethodDisabled" ELSE "ok"

EnableU2fPage(s) == UNCHANGED core

EnableU2fPageReply(s) == Reply("enable-u2f", s, EnableU2fPageOut(s), NoToken)

\* router.post('/setup-u2f')
SetupU2fOut(s, up) ==
    IF U2fDisabled THEN "MethodDisabled"
    ELSE IF session[s].user = NoUser THEN "ServerError"
    ELSE IF ~up THEN "ProviderUnavailable" ELSE "ok"

SetupU2f(s, up) ==
    /\ registry' = IF SetupU2fOut(s, up) = "ok"
                   THEN RegBeginU2f(registry, session[s].user) ELSE registry
    /\ UNCHANGED <<u2fEnabled, session, inflight, now, jar>>

SetupU2fReply(s, up) == Reply("setup-u2f", s, SetupU2fOut(s, up), NoToken)

\* router.post('/disable-u2f')
\* A mutant: disabling a key that is not Active is answered NotFound.
DisableU2fOutStrict(s, up) ==
    IF ~CheckLogin(s) THEN "LoginRequired"
    ELSE IF U2fDisabled THEN "MethodDisabled"
    ELSE IF ~up THEN "ProviderUnavailable"
    ELSE IF ~registry[session[s].user].u2fActive THEN "NotFound" ELSE "ok"

DisableU2fOut(s, up) ==
    IF ~CheckLogin(s) THEN "LoginRequired"
    ELSE IF U2fDisabled THEN "MethodDisabled"
    ELSE IF ~up THEN "ProviderUnavailable" ELSE "ok"

DisableU2f(s, up) ==
    /\ registry' = IF DisableU2fOut(s, up) = "ok"
                   THEN RegDisableU2f(registry, session[s].user) ELSE registry
    /\ UNCHANGED <<u2fEnabled, session, inflight, now, jar>>

DisableU2fReply(s, up) == Reply("disable-u2f", s, DisableU2fOut(s, up), NoToken)

\* router.post('/enable-u2f/verify')
\* A mutant: the route is declared without passport.checkLogin.
EnableU2fVerifyOutNoLogin(s, key, up) ==
    IF U2fDisabled THEN "MethodDisabled"
    ELSE IF session[s].user = NoUser THEN "ServerError"
    ELSE ApiEnableU2f(session[s].user, key, up)

EnableU2fVerifyOut(s, key, up) ==
    IF ~CheckLogin(s) THEN "LoginRequired"
    ELSE IF U2fDisabled THEN "MethodDisabled"
    ELSE ApiEnableU2f(session[s].user, key, up)

EnableU2fVerify(s, key, up) ==
    /\ registry' = IF EnableU2fVerifyOut(s, key, up) = "ok"
                   THEN RegConfirmU2f(registry, session[s].user) ELSE registry
    /\ UNCHANGED <<u2fEnabled, session, inflight, now, jar>>

EnableU2fVerifyReply(s, key, up) ==
    Reply("enable-u2f/verify", s, EnableU2fVerifyOut(s, key, up), NoToken)

EnableU2fVerifyHist(s, key, up) ==
    IF EnableU2fVerifyOut(s, key, up) = "ok"
    THEN [hist EXCEPT ![s] = "presented"] ELSE hist

\* Time passes.
Tick ==
    /\ now < StartTime + MaxTicks
    /\ now' = now + 1
    /\ UNCHANGED <<u2fEnabled, registry, session, inflight, jar>>

(***************************************************************************)
(* The next-state relation over the sessions SS that send requests, the    *)
(* accounts AA they log in to and the nonces NN that randomBytes returns.  *)
(* The observer w is "resp" (the responses are recorded) or "hist" (the    *)
(* sessions' histories are).                                               *)
(***************************************************************************)
Observe(w, r, h) ==
    /\ IF w = "resp" THEN resp' = r /\ UNCHANGED hist
       ELSE hist' = h /\ UNCHANGED resp
    /\ UNCHANGED <<probe, trail>>

Cookies == {NoToken} \cup {jar[a].value : a \in Accounts}

Requests(SS, AA, NN, w) ==
    \/ \E s \in SS, a \in AA, c \in Cookies :
            Login(s, a, c) /\ Observe(w, LoginReply(s), LoginHist(s, a, c))
    \/ \E s \in SS : Logout(s) /\ Observe(w, LogoutReply(s), LogoutHist(s))
    \/ \E s \in SS, t \in TokenInputs, up \in BOOLEAN, k \in Secrets :
            EnableTotp(s, t, up, k) /\ Observe(w, EnableTotpReply(s, t, up), hist)
    \/ \E s \in SS, t \in TokenInputs, up \in BOOLEAN :
            VerifyTotp(s, t, up) /\ Observe(w, VerifyTotpReply(s, t, up), hist)
    \/ \E s \in SS, up \in BOOLEAN :
            Disable2fa(s, up) /\ Observe(w, Disable2faReply(s), hist)
    \/ \E r \in inflight :
            Disable2faDone(r) /\ Observe(w, Disable2faDoneReply(r), Disable2faDoneHist(r))
    \/ \E s \in SS, t \in TokenInputs, m \in RememberInputs, up \in BOOLEAN :
            CheckTotp(s, t, m, up) /\ Observe(w, CheckTotpReply(s, t, m), hist)
    \/ \E r \in inflight, n \in NN :
            CheckTotpDone(r, n) /\ Observe(w, CheckTotpDoneReply(r, n), CheckTotpDoneHist(r))
    \/ \E s \in SS, up \in BOOLEAN :
            StartU2f(s, up) /\ Observe(w, StartU2fReply(s, up), hist)
    \/ \E s \in SS, key \in KeyInputs, m \in RememberInputs, up \in BOOLEAN :
            CheckU2f(s, key, m, up) /\ Observe(w, CheckU2fReply(s, key, m), hist)
    \/ \E r \in inflight, n \in NN :
            CheckU2fDone(r, n) /\ Observe(w, CheckU2fDoneReply(r, n), CheckU2fDoneHist(r))
    \/ \E s \in SS : EnableU2fPage(s) /\ Observe(w, EnableU2fPageReply(s), hist)
    \/ \E s \in SS, up \in BOOLEAN :
            SetupU2f(s, up) /\ Observe(w, SetupU2fReply(s, up), hist)
    \/ \E s \in SS, up \in BOOLEAN :
            DisableU2f(s, up) /\ Observe(w, DisableU2fReply(s, up), hist)
    \/ \E s \in SS, key \in KeyInputs, up \in BOOLEAN :
            EnableU2fVerify(s, key, up)
            /\ Observe(w, EnableU2fVerifyReply(s, key, up), EnableU2fVerifyHist(s, key, up))

OneNonce == {[i \in 1..NonceBytes |-> 10]}

\* Two sessions of one account, their histories observed.
Next == Requests(Sessions, {"a1"}, OneNonce, "hist")

Spec == Init /\ [][Next]_vars

\* One session of one account, the responses observed.
NextReply == Requests({1}, {"a1"}, OneNonce, "resp")

SpecReply == Init /\ [][NextReply]_vars

(***************************************************************************)
(* Session gating.                                                         *)
(***************************************************************************)
Checks == {"check-totp", "check-u2f"}

\* C1: in every reachable state, every session of an account with no Active
\* factor has require2fa = false.
C1_NoFactorNoGate ==
    \A s \in Sessions :
        (session[s].user # NoUser /\ ~HasActive(session[s].user))
            => ~session[s].require2fa

Answered == inflight \ inflight'

\* A request is answered in this step: a callback runs, or a handler answers
\* at once.
Answers == Answered # {} \/ resp' # resp

\* C3: when the callback of a check-totp or check-u2f call for which the
\* provider reported success runs, require2fa of the calling session is
\* false afterwards, and the request is answered with success.
C3_SuccessClearsGate ==
    [][\A r \in Answered :
            (r.op \in Checks /\ r.out = "ok")
                => /\ ~session'[r.sess].require2fa
                   /\ resp'.result = "ok" /\ resp'.op = r.op /\ resp'.sess = r.sess]_vars

\* A TOTP check answered with success and a remember-token, the session's
\* gate open, the account's TOTP enrollment Active.
C3_Witness ==
    /\ resp.op = "check-totp" /\ resp.result = "ok" /\ resp.token # NoToken
    /\ session[resp.sess].user # NoUser
    /\ registry[session[resp.sess].user].totpActive # 0
    /\ ~session[resp.sess].require2fa

\* C4: a verification request that fails (a code that does not match, a
\* provider error, a validation error) is answered with the failure and
\* leaves every session as it was; a code that does not match is answered
\* with VerificationFailed.
C4_FailureKeepsGate ==
    [][/\ \A r \in Answered :
            (r.op \in Checks /\ r.out # "ok")
                => /\ session' = session
                   /\ resp'.result = (IF r.out = "fail" THEN "VerificationFailed" ELSE r.out)
       /\ (Answers /\ resp'.op \in Checks /\ resp'.result # "ok") => session' = session]_vars

\* A TOTP check answered with VerificationFailed, the session still gated.
C4_Witness ==
    /\ resp.op = "check-totp" /\ resp.result = "VerificationFailed"
    /\ session[resp.sess].require2fa
    /\ registry[session[resp.sess].user].totpActive # 0

\* C5: a remember-token is handed out only by the callback of a check-totp
\* or check-u2f call that the provider answered with success and whose
\* request asked for remember2fa, and only in a response that reports
\* success.
C5_TokenOnlyOnSuccess ==
    [][((Answers /\ resp'.token # NoToken) \/ jar' # jar)
            => /\ \E r \in Answered : r.op \in Checks /\ r.out = "ok" /\ r.remember
               /\ resp'.result = "ok"]_vars

\* A security-key check answered with success and a token.
C5_Witness ==
    /\ resp.op = "check-u2f" /\ resp.result = "ok" /\ resp.token # NoToken
    /\ jar[session[resp.sess].user].value = resp.token

(***************************************************************************)
(* The security-key feature gate.                                          *)
(***************************************************************************)
U2fOps == {"start-u2f", "check-u2f", "enable-u2f", "setup-u2f", "disable-u2f",
           "enable-u2f/verify"}

\* The security-key routes behind passport.checkLogin.
U2fLoginOps == {"enable-u2f", "disable-u2f", "enable-u2f/verify"}

\* C9: while security-key support is disabled, every security-key request
\* that reaches its handler is answered MethodDisabled (one refused by
\* passport.checkLogin before the handler is answered LoginRequired); no
\* security-key request changes the Registry, a session, the calls in flight
\* or the tokens, and no security-key call is ever in flight.
C9_MethodDisabled ==
    [][~u2fEnabled =>
        /\ \A r \in inflight' : r.op # "check-u2f"
        /\ \A a \in Accounts :
              /\ registry'[a].u2fActive = registry[a].u2fActive
              /\ registry'[a].u2fPending = registry[a].u2fPending
        /\ (Answers /\ resp'.op \in U2fOps) =>
              /\ resp'.result =
                    (IF resp'.op \in U2fLoginOps /\ ~CheckLogin(resp'.sess)
                     THEN "LoginRequired" ELSE "MethodDisabled")
              /\ UNCHANGED <<registry, session, inflight, jar>>]_vars

\* With support disabled, a logged-in session of an account with an Active
\* factor asked to disable its security key and was answered MethodDisabled.
C9_Witness ==
    /\ ~u2fEnabled
    /\ resp.op = "disable-u2f" /\ resp.result = "MethodDisabled"
    /\ CheckLogin(resp.sess) /\ HasActive(session[resp.sess].user)

(***************************************************************************)
(* Enrollment.                                                             *)
(***************************************************************************)
NotReached == {"ValidationError", "ServerError", "ProviderUnavailable",
               "LoginRequired", "MethodDisabled"}

\* C10: a confirmation (verify-totp, enable-u2f/verify) succeeds only if the
\* account holds a Pending enrollment of the kind, which it promotes and
\* removes; a Pending enrollment comes into being only by enable-2fa or
\* setup-u2f; and a confirmation that reaches the Registry while no Pending
\* enrollment of the kind exists, as after a successful confirmation with no
\* new enrollment begun, is answered NotFound.
C10_ConfirmNeedsPending ==
    [][/\ (Answers /\ resp'.op = "verify-totp" /\ resp'.result = "ok") =>
            LET a == session[resp'.sess].user IN
            /\ registry[a].totpPending # 0
            /\ registry'[a].totpActive = registry[a].totpPending
            /\ registry'[a].totpPending = 0
       /\ (Answers /\ resp'.op = "enable-u2f/verify" /\ resp'.result = "ok") =>
            LET a == session[resp'.sess].user IN
            /\ registry[a].u2fPending
            /\ registry'[a].u2fActive /\ ~registry'[a].u2fPending
       /\ (Answers /\ resp'.op = "verify-totp" /\ resp'.result \notin NotReached
           /\ registry[session[resp'.sess].user].totpPending = 0)
            => resp'.result = "NotFound"
       /\ (Answers /\ resp'.op = "enable-u2f/verify" /\ resp'.result \notin NotReached
           /\ ~registry[session[resp'.sess].user].u2fPending)
            => resp'.result = "NotFound"
       /\ \A a \in Accounts :
            /\ (registry'[a].totpPending # 0
                /\ registry'[a].totpPending # registry[a].totpPending)
                    => resp'.op = "enable-2fa"
            /\ (registry'[a].u2fPending /\ ~registry[a].u2fPending)
                    => resp'.op = "setup-u2f"]_vars

\* A second confirmation, made after a successful one with no enrollment
\* begun in between, answered NotFound.
C10_Witness ==
    /\ resp.op = "verify-totp" /\ resp.result = "NotFound"
    /\ registry[session[resp.sess].user].totpActive # 0
    /\ registry[session[resp.sess].user].totpPending = 0

(***************************************************************************)
(* The remember-token.  One browser, both accounts, time passing: an       *)
(* account enrolls TOTP, logs in again, passes the check with "remember    *)
(* this device" and later logs in with the cookies the browser holds.      *)
(***************************************************************************)
NextToken ==
    \/ \E a \in Accounts, c \in Cookies :
            Login(1, a, c) /\ Observe("hist", resp, LoginHist(1, a, c))
    \/ Logout(1) /\ Observe("hist", resp, LogoutHist(1))
    \/ EnableTotp(1, AbsentToken, TRUE, 1) /\ UNCHANGED <<resp, hist, probe, trail>>
    \/ VerifyTotp(1, CodeFor(1), TRUE) /\ UNCHANGED <<resp, hist, probe, trail>>
    \/ \E m \in {"on", Absent} :
            CheckTotp(1, CodeFor(1), m, TRUE) /\ UNCHANGED <<resp, hist, probe, trail>>
    \/ \E r \in inflight, n \in Nonces :
            CheckTotpDone(r, n) /\ Observe("hist", resp, CheckTotpDoneHist(r))
    \/ Tick /\ UNCHANGED <<resp, hist, probe, trail>>

SpecToken == Init /\ [][NextToken]_vars

\* The tokens that generate2faRemeberToken has returned or can return in the
\* current state: the cookies held, and a token of every account minted at
\* any time up to now.
MintTimes == StartTime..now
Held(a) == jar[a].value # NoToken

\* C6: a token returned by generate2faRemeberToken, verified for the account
\* it was minted for no later than MaxAge after its minting, is valid.
C6_MintThenVerify ==
    /\ \A a \in Accounts, t \in MintTimes, n \in Nonces :
            now - t <= MaxAge => VerifyToken(Generate2faRemeberTokenAt(a, t, n), a, now)
    /\ \A a \in Accounts :
            (Held(a) /\ now - jar[a].at <= MaxAge) => VerifyToken(jar[a].value, a, now)

\* A login at the last moment of the window of the token it presented was
\* not gated although the account has an Active factor.
C6_Witness ==
    \E a \in Accounts :
        /\ Held(a) /\ now - jar[a].at = MaxAge
        /\ session[1] = [user |-> a, require2fa |-> FALSE]
        /\ HasActive(a) /\ hist[1] = "presented"
        /\ inflight = {}

(***************************************************************************)
(* The token codec alone.  The browser holds a token that                  *)
(* generate2faRemeberToken returned to one of two accounts with TOTP       *)
(* Active; logged out, it logs in to either account presenting the token,  *)
(* the token with one character replaced, a text that does not split into  *)
(* three parts, or nothing.                                                *)
(***************************************************************************)
AlphabetSet == {Alphabet[i] : i \in 1..Len(Alphabet)}

Altered(token) == {[token EXCEPT ![i] = c] : i \in 1..Len(token), c \in AlphabetSet}

\* Texts that do not split into three parts.
Malformed(token) ==
    { Sep, <<"g">>, token \o Sep \o token,
      Join(<<Split(token)[1], Split(token)[2]>>) }

Presentable ==
    {NoToken} \cup UNION {Altered(jar[a].value) \cup Malformed(jar[a].value) :
                            a \in {b \in Accounts : Held(b)}}

InitCodec ==
    /\ u2fEnabled = FALSE
    /\ registry = [a \in Accounts |-> [NoFactors EXCEPT !.totpActive = 1]]
    /\ session = [s \in Sessions |-> NoSession]
    /\ inflight = {}
    /\ now \in StartTime..(StartTime + MaxTicks)
    /\ \E a \in Accounts, t \in MintTimes, n \in Nonces :
            jar = [b \in Accounts |->
                    IF b = a THEN [value |-> Generate2faRemeberTokenAt(a, t, n), at |-> t]
                    ELSE NoCookie]
    /\ resp = NoResp
    /\ hist = [s \in Sessions |-> "none"]
    /\ probe = NoToken
    /\ trail = NoTrail

NextCodec ==
    \/ /\ session[1].user = NoUser
       /\ \E b \in Accounts, c \in Presentable :
            /\ Login(1, b, c)
            /\ probe' = c
            /\ UNCHANGED <<resp, hist, trail>>
    \/ /\ session[1].user # NoUser
       /\ Logout(1)
       /\ probe' = NoToken
       /\ UNCHANGED <<resp, hist, trail>>

SpecCodec == InitCodec /\ [][NextCodec]_vars

\* C7: a login is let through without the second factor only if the text it
\* presented is, character for character, the token held for the account it
\* logs in to: the token with any one character replaced, the token of the
\* other account, and a text that does not split into three parts are all
\* invalid (and verifying them is defined).
C7_AlteredInvalid ==
    \A b \in Accounts :
        (session[1].user = b /\ ~session[1].require2fa)
            => (Held(b) /\ probe = jar[b].value)

\* The login presented the unexpired token of its own account with exactly
\* one character replaced, and was gated.
C7_Witness ==
    \E a \in Accounts :
        /\ Held(a) /\ now - jar[a].at <= MaxAge
        /\ session[1] = [user |-> a, require2fa |-> TRUE]
        /\ Len(probe) = Len(jar[a].value)
        /\ Cardinality({i \in 1..Len(probe) : probe[i] # jar[a].value[i]}) = 1

\* C8: a token minted more than MaxAge ago is invalid for every account
\* although its hash is the one of its first two parts; and a step that
\* leaves a session logged in to an account with an Active factor and not
\* gated, without a check or a disable being answered and without an
\* enrollment being confirmed, happens only while a token of the account
\* minted no more than MaxAge ago is held.
C8_Expiry ==
    /\ [](\A a \in Accounts, t \in MintTimes, n \in Nonces, b \in Accounts :
            now - t > MaxAge => ~VerifyToken(Generate2faRemeberTokenAt(a, t, n), b, now))
    /\ [](\A a \in Accounts, b \in Accounts :
            (Held(a) /\ now - jar[a].at > MaxAge) => ~VerifyToken(jar[a].value, b, now))
    /\ [][\A s \in Sessions, a \in Accounts :
            (/\ session'[s] = [user |-> a, require2fa |-> FALSE]
             /\ session[s] # session'[s]
             /\ HasActive(a) /\ registry' = registry /\ inflight' = inflight)
            => (Held(a) /\ now - jar[a].at <= MaxAge)]_vars

\* The token held has expired, its hash is still the right one, and the
\* login that followed was gated.
C8_Witness ==
    \E a \in Accounts :
        /\ Held(a) /\ now - jar[a].at > MaxAge
        /\ LET parts == Split(jar[a].value)
           IN  TokenHash(a, Join(<<parts[1], parts[2]>>)) = parts[3]
        /\ session[1] = [user |-> a, require2fa |-> TRUE] /\ hist[1] = "gated"
        /\ \A b \in Accounts \ {a} : ~Held(b)

(***************************************************************************)
(* TOTP requests with their bodies observed: one session of one account    *)
(* logs in and out, begins and confirms TOTP enrollments and sends codes   *)
(* to check-totp; trail holds the body of the last request and the Pending *)
(* secret that the last enable-2fa replaced.                               *)
(***************************************************************************)
Trail(op, s, code, up) ==
    [op |-> op, sess |-> s, code |-> code, up |-> up, superseded |-> trail.superseded]

EnableTotpTrail(s, token, up) ==
    [Trail("enable-2fa", s, token, up) EXCEPT
        !.superseded = IF CheckLogin(s) /\ up
                       THEN registry[session[s].user].totpPending ELSE @]

ObserveBody(r, t) == resp' = r /\ trail' = t /\ UNCHANGED <<hist, probe>>

NextInput ==
    \/ \E c \in Cookies :
            Login(1, "a1", c) /\ ObserveBody(LoginReply(1), Trail("login", 1, NoToken, TRUE))
    \/ Logout(1) /\ ObserveBody(LogoutReply(1), Trail("logout", 1, NoToken, TRUE))
    \/ \E t \in TokenInputs, up \in BOOLEAN, k \in Secrets :
            EnableTotp(1, t, up, k)
            /\ ObserveBody(EnableTotpReply(1, t, up), EnableTotpTrail(1, t, up))
    \/ \E t \in TokenInputs, up \in BOOLEAN :
            VerifyTotp(1, t, up)
            /\ ObserveBody(VerifyTotpReply(1, t, up), Trail("verify-totp", 1, t, up))
    \/ \E t \in TokenInputs, m \in RememberInputs, up \in BOOLEAN :
            CheckTotp(1, t, m, up)
            /\ ObserveBody(CheckTotpReply(1, t, m), Trail("check-totp", 1, t, up))
    \/ \E r \in inflight, n \in OneNonce :
            CheckTotpDone(r, n) /\ ObserveBody(CheckTotpDoneReply(r, n), trail)

SpecInput == Init /\ [][NextInput]_vars

\* The step handles a request to op (it is no callback), whose body trail' holds.
Requested(op) == Answered = {} /\ trail'.op = op

\* The account of the session that sent the request.
Sender == session[trail'.sess].user

\* C11: when a TOTP enrollment is Pending, a confirmation that reaches the
\* provider succeeds exactly if its code is the code of the Pending secret,
\* and then that secret becomes the Active one; with any other code, in
\* particular the code of the secret that the last enable-2fa replaced, it
\* is answered VerificationFailed and the Registry is unchanged.
C11_RerollConfirm ==
    [][(Requested("verify-totp") /\ Sender # NoUser /\ trail'.up
        /\ TokenSchemaOk(trail'.code, TRUE) /\ registry[Sender].totpPending # 0) =>
           /\ IF trail'.code = CodeFor(registry[Sender].totpPending)
              THEN /\ resp'.result = "ok"
                   /\ registry'[Sender].totpActive = registry[Sender].totpPending
                   /\ registry'[Sender].totpPending = 0
              ELSE resp'.result = "VerificationFailed" /\ registry' = registry
           /\ (trail.superseded # 0 /\ trail'.code = CodeFor(trail.superseded))
                 => (resp'.result = "VerificationFailed" /\ registry' = registry)]_vars

\* An enrollment was begun twice and the code of the first secret, which the
\* second replaced, was refused: nothing is Active, the second is Pending.
C11_Witness ==
    /\ trail.op = "verify-totp" /\ trail.superseded # 0
    /\ trail.code = CodeFor(trail.superseded)
    /\ resp.op = "verify-totp" /\ resp.result = "VerificationFailed"
    /\ registry["a1"].totpPending \notin {0, trail.superseded}
    /\ registry["a1"].totpActive = 0

KeyDisabled(a) ==
    /\ registry[a].u2fActive /\ ~registry'[a].u2fActive
    /\ registry[a].totpActive # 0 /\ registry'[a].totpActive # 0

\* The last Active factor of account a is removed.
LastFactorRemoved(a) == HasActive(a) /\ ~(HasActive(a))'

\* C13: a step that disables the security key of an account whose TOTP is
\* Active leaves the TOTP secret and every session as they are; a password
\* login to an account with an Active factor is never treated as a login to
\* an account without one (it is gated unless it presents a valid token);
\* and a step that removes the last Active factor of an account leaves
\* require2fa false in every session of that account.
C13_DisableKeyThenLast ==
    [][\A a \in Accounts :
        /\ KeyDisabled(a) =>
              /\ registry'[a].totpActive = registry[a].totpActive
              /\ session' = session
        /\ \A s \in Sessions :
              (hist'[s] # hist[s] /\ session'[s].user = a) =>
                 /\ hist'[s] = "nofactor" => ~HasActive(a)
                 /\ hist'[s] = "gated" => session'[s].require2fa
        /\ LastFactorRemoved(a) =>
              \A s \in Sessions : session'[s].user = a => ~session'[s].require2fa]_vars

(***************************************************************************)
(* Disabling twice.                                                        *)
(***************************************************************************)
\* The API calls that this step makes.
Called == inflight' \ inflight

KeyTrail(key) == <<key.sig, key.errorCode>>

NextOutage ==
    \/ Login(1, "a1", NoToken) /\ ObserveBody(LoginReply(1), Trail("login", 1, NoToken, TRUE))
    \/ Logout(1) /\ ObserveBody(LogoutReply(1), Trail("logout", 1, NoToken, TRUE))
    \/ \E up \in BOOLEAN, k \in Secrets :
            EnableTotp(1, AbsentToken, up, k)
            /\ ObserveBody(EnableTotpReply(1, AbsentToken, up), EnableTotpTrail(1, AbsentToken, up))
    \/ \E k \in Secrets, up \in BOOLEAN :
            VerifyTotp(1, CodeFor(k), up)
            /\ ObserveBody(VerifyTotpReply(1, CodeFor(k), up), Trail("verify-totp", 1, CodeFor(k), up))
    \/ \E up \in BOOLEAN :
            Disable2fa(1, up)
            /\ ObserveBody(Disable2faReply(1), Trail("disable-2fa", 1, NoToken, up))
    \/ \E r \in inflight : Disable2faDone(r) /\ ObserveBody(Disable2faDoneReply(r), trail)
    \/ \E k \in Secrets, up \in BOOLEAN :
            CheckTotp(1, CodeFor(k), Absent, up)
            /\ ObserveBody(CheckTotpReply(1, CodeFor(k), Absent), Trail("check-totp", 1, CodeFor(k), up))
    \/ \E r \in inflight, n \in OneNonce :
            CheckTotpDone(r, n) /\ ObserveBody(CheckTotpDoneReply(r, n), trail)
    \/ \E up \in BOOLEAN :
            StartU2f(1, up) /\ ObserveBody(StartU2fReply(1, up), Trail("start-u2f", 1, NoToken, up))
    \/ \E key \in KeyInputs, up \in BOOLEAN :
            CheckU2f(1, key, Absent, up)
            /\ ObserveBody(CheckU2fReply(1, key, Absent), Trail("check-u2f", 1, KeyTrail(key), up))
    \/ \E r \in inflight, n \in OneNonce :
            CheckU2fDone(r, n) /\ ObserveBody(CheckU2fDoneReply(r, n), trail)
    \/ \E up \in BOOLEAN :
            SetupU2f(1, up) /\ ObserveBody(SetupU2fReply(1, up), Trail("setup-u2f", 1, NoToken, up))
    \/ \E up \in BOOLEAN :
            DisableU2f(1, up)
            /\ ObserveBody(DisableU2fReply(1, up), Trail("disable-u2f", 1, NoToken, up))
    \/ \E key \in KeyInputs, up \in BOOLEAN :
            EnableU2fVerify(1, key, up)
            /\ ObserveBody(EnableU2fVerifyReply(1, key, up),
                           Trail("enable-u2f/verify", 1, KeyTrail(key), up))

SpecOutage == Init /\ [][NextOutage]_vars

\* The requests that call the provider and answer in the same step.
OneStepOps == {"enable-2fa", "verify-totp", "start-u2f", "setup-u2f", "disable-u2f",
               "enable-u2f/verify"}

\* Results of a request that ended before any API call.
NoCallResults == {"LoginRequired", "MethodDisabled", "ValidationError", "ServerError"}

\* The code or key response of the request is not the one the provider
\* expects for the record it is checked against.
CheckFails ==
    LET a == Sender IN
    CASE trail'.op = "check-totp" ->
            registry[a].totpActive # 0 /\ trail'.code # CodeFor(registry[a].totpActive)
      [] trail'.op = "verify-totp" ->
            registry[a].totpPending # 0 /\ trail'.code # CodeFor(registry[a].totpPending)
      [] trail'.op = "check-u2f" ->
            registry[a].u2fActive /\ trail'.code # <<"good", Absent>>
      [] trail'.op = "enable-u2f/verify" ->
            registry[a].u2fPending /\ trail'.code # <<"good", Absent>>
      [] OTHER -> FALSE

\* C15: an API call made while the provider is down returns
\* ProviderUnavailable and only such a call does; a call returns a failed
\* check exactly when the provider is up and the code or key response does
\* not match; a callback answers ProviderUnavailable exactly for a call that
\* returned it, VerificationFailed exactly for a failed check, and success
\* only for a call that succeeded; a request answered in one step is
\* answered ProviderUnavailable only when the provider is down, and then
\* whenever it reaches the provider, VerificationFailed only when the
\* provider is up and the check fails, and success only when the provider
\* is up and no check fails.
C15_ErrorMapping ==
    [][/\ \A r \in Called :
            /\ r.out = "ProviderUnavailable" <=> ~trail'.up
            /\ r.out = "fail" <=> (trail'.up /\ CheckFails)
            /\ r.out = "ok" => (trail'.up /\ ~CheckFails)
       /\ \A r \in Answered :
            /\ resp'.result = "ProviderUnavailable" <=> r.out = "ProviderUnavailable"
            /\ resp'.result = "VerificationFailed" <=> r.out = "fail"
            /\ resp'.result = "ok" => r.out = "ok"
       /\ (Answered = {} /\ Called = {} /\ trail'.op \in OneStepOps) =>
            /\ resp'.op = trail'.op
            /\ resp'.result = "ProviderUnavailable" => ~trail'.up
            /\ ~trail'.up => resp'.result \in NoCallResults \cup {"ProviderUnavailable"}
            /\ resp'.result = "VerificationFailed" => (trail'.up /\ CheckFails)
            /\ resp'.result = "ok" => (trail'.up /\ ~CheckFails)]_vars

\* A check-u2f made while the provider was down has been answered
\* ProviderUnavailable.
C15_Witness ==
    /\ resp.op = "check-u2f" /\ resp.result = "ProviderUnavailable"
    /\ trail.op = "check-u2f" /\ ~trail.up

(***************************************************************************)
(* The shape of the code.                                                  *)
(***************************************************************************)
\* The request carries a token field that is not six digits, or, where the
\* field is required, carries none.
BadCode(op) ==
    /\ Requested(op)
    /\ ~TokenSchemaOk(trail'.code, TRUE)
    /\ op = "enable-2fa" => (CheckLogin(trail'.sess) /\ trail'.code # AbsentToken)

\* C16: a check-totp call is made, and a verify-totp is answered with the
\* outcome of a check, only for a code of six digits; a check-totp or
\* verify-totp request whose code is missing or of another shape, and an
\* enable-2fa request of a logged-in session whose code is of another shape,
\* is answered ValidationError and changes neither the Registry nor the
\* sessions nor the calls in flight.
C16_MalformedRejected ==
    [][/\ \A r \in Called : r.op = "check-totp" => TokenSchemaOk(trail'.code, TRUE)
       /\ (Requested("verify-totp") /\ resp'.result \in {"ok", "VerificationFailed"}) =>
            TokenSchemaOk(trail'.code, TRUE)
       /\ \A op \in {"check-totp", "verify-totp", "enable-2fa"} :
            BadCode(op) =>
                /\ resp'.result = "ValidationError"
                /\ UNCHANGED <<registry, session, inflight>>]_vars

(***************************************************************************)
(* One Active and one Pending record per account and kind.                 *)
(***************************************************************************)
\* The secrets whose code the provider accepts for a login check of a, and
\* those whose code it accepts for a confirmation.
ActiveSecrets(a) == {k \in Secrets : ApiCheckTotp(a, CodeFor(k), TRUE) = "ok"}
PendingSecrets(a) == {k \in Secrets : ApiVerifyTotp(a, CodeFor(k), TRUE) = "ok"}

NextRace ==
    \/ \E s \in Sessions :
            Login(s, "a1", NoToken) /\ ObserveBody(LoginReply(s), Trail("login", s, NoToken, TRUE))
    \/ \E s \in Sessions, up \in BOOLEAN, k \in Secrets :
            EnableTotp(s, AbsentToken, up, k)
            /\ ObserveBody(EnableTotpReply(s, AbsentToken, up), EnableTotpTrail(s, AbsentToken, up))
    \/ \E s \in Sessions, k \in 0..NumSecrets, up \in BOOLEAN :
            VerifyTotp(s, CodeFor(k), up)
            /\ ObserveBody(VerifyTotpReply(s, CodeFor(k), up), Trail("verify-totp", s, CodeFor(k), up))
    \/ \E s \in Sessions, up \in BOOLEAN :
            Disable2fa(s, up)
            /\ ObserveBody(Disable2faReply(s), Trail("disable-2fa", s, NoToken, up))
    \/ \E r \in inflight : Disable2faDone(r) /\ ObserveBody(Disable2faDoneReply(r), trail)

SpecRace == Init /\ [][NextRace]_vars

C19_BeginKeepsActive ==
    [][\A a \in Accounts :
        /\ Requested("enable-2fa") =>
            /\ registry'[a].totpActive = registry[a].totpActive
            /\ registry'[a].u2fActive = registry[a].u2fActive
        /\ registry'[a].totpActive # registry[a].totpActive =>
            (Requested("verify-totp") /\ a = Sender /\ resp'.result = "ok")
        /\ \A r \in Called :
            (r.op = "check-totp" /\ r.user = a /\ trail'.up /\ registry[a].totpActive # 0) =>
                /\ r.out = "ok" <=> trail'.code = CodeFor(registry[a].totpActive)
                /\ trail'.code = CodeFor(registry[a].totpPending) => r.out = "fail"]_vars

\* An enrollment was begun beside an Active one, and a check-totp call with
\* the code of the Pending secret has failed.
C19_Witness ==
    /\ registry["a1"].totpActive # 0 /\ registry["a1"].totpPending # 0
    /\ trail.op = "check-totp" /\ trail.code = CodeFor(registry["a1"].totpPending)
    /\ \E r \in inflight : r.op = "check-totp" /\ r.out = "fail"

(***************************************************************************)
(* Two sessions, each of either account: both accounts have TOTP and a     *)
(* security key Active; the sessions log in, with or without a remember    *)
(* cookie, pass or fail the second factor, and log out.                    *)
(***************************************************************************)
BothFactors == [totpActive |-> 1, totpPending |-> 0, u2fActive |-> TRUE, u2fPending |-> FALSE]

InitPair ==
    /\ u2fEnabled = TRUE
    /\ registry = [a \in Accounts |-> BothFactors]
    /\ session = [s \in Sessions |-> NoSession]
    /\ inflight = {}
    /\ now = StartTime
    /\ jar = [a \in Accounts |-> NoCookie]
    /\ resp = NoResp
    /\ hist = [s \in Sessions |-> "none"]
    /\ probe = NoToken
    /\ trail = NoTrail

NextPair ==
    \/ \E s \in Sessions, a \in Accounts, c \in Cookies :
            Login(s, a, c) /\ ObserveBody(LoginReply(s), Trail("login", s, c, TRUE))
    \/ \E s \in Sessions :
            Logout(s) /\ ObserveBody(LogoutReply(s), Trail("logout", s, NoToken, TRUE))
    \/ \E s \in Sessions, k \in Secrets, m \in {"on", Absent} :
            CheckTotp(s, CodeFor(k), m, TRUE)
            /\ ObserveBody(CheckTotpReply(s, CodeFor(k), m), Trail("check-totp", s, CodeFor(k), TRUE))
    \/ \E r \in inflight, n \in OneNonce :
            CheckTotpDone(r, n) /\ ObserveBody(CheckTotpDoneReply(r, n), trail)
    \/ \E s \in Sessions, key \in KeyInputs, m \in {"on", Absent} :
            CheckU2f(s, key, m, TRUE)
            /\ ObserveBody(CheckU2fReply(s, key, m), Trail("check-u2f", s, KeyTrail(key), TRUE))
    \/ \E r \in inflight, n \in OneNonce :
            CheckU2fDone(r, n) /\ ObserveBody(CheckU2fDoneReply(r, n), trail)

SpecPair == InitPair /\ [][NextPair]_vars

\* The session on which the step's operation was invoked: the one whose
\* API call the callback answers, or the one that sent the request.
Invoker == IF Answered # {} THEN {r.sess : r \in Answered} ELSE {trail'.sess}

\* C20: a step (a login with or without a remember cookie, a logout, a
\* check-totp or check-u2f request or the callback of one) leaves the
\* record of every session other than the one it was invoked on, of the
\* same or of the other account, as it was.
C20_OwnSessionOnly ==
    [][\A t \in Sessions \ Invoker : session'[t] = session[t]]_vars

\* Two gated sessions of one account: one has passed check-totp and is
\* cleared, the other is still gated.
C20_Witness ==
    /\ resp.op = "check-totp" /\ resp.result = "ok"
    /\ session[resp.sess] = [user |-> "a1", require2fa |-> FALSE]
    /\ \E t \in Sessions \ {resp.sess} : session[t] = [user |-> "a1", require2fa |-> TRUE]

(***************************************************************************)
(* The fields of a token.                                                  *)
(***************************************************************************)
\* The text is three fields separated by "::": the time in hexadecimal, the
\* hexadecimal encoding of a nonce of at least NonceBytes bytes, and the
\* keyed hash, with key secret + ":" + account, of the first two fields
\* joined by "::".
ThreeFields(token, a, time) ==
    LET parts == Split(token)
    IN  /\ Len(parts) = 3
        /\ token = parts[1] \o Sep \o parts[2] \o Sep \o parts[3]
        /\ parts[1] = ToHex(time)
        /\ Len(parts[2]) >= 2 * NonceBytes
        /\ \E n \in Nonces : parts[2] = BytesToHex(n)
        /\ parts[3] = Hmac(TotpSecret \o <<":">> \o UserChars[a],
                           parts[1] \o Sep \o parts[2])

\* C21: the token an account holds is made of the three fields, its first
\* field being the time of its minting; and in every state, whatever the
\* sessions and enrollments are, the token that generate2faRemeberToken
\* returns for an account, a time and a nonce is the text made of that time,
\* that nonce and the keyed hash of the two under the account's key.
C21_TokenFields ==
    /\ \A a \in Accounts : Held(a) => ThreeFields(jar[a].value, a, jar[a].at)
    /\ \A a \in Accounts, t \in MintTimes, n \in Nonces :
            /\ ThreeFields(Generate2faRemeberTokenAt(a, t, n), a, t)
            /\ Generate2faRemeberTokenAt(a, t, n) =
                    ToHex(t) \o Sep \o BytesToHex(n) \o Sep
                    \o Hmac(TotpSecret \o <<":">> \o UserChars[a],
                            ToHex(t) \o Sep \o BytesToHex(n))

\* Both accounts hold a token, minted at different times, while the browser
\* is logged out.
C21_Witness ==
    /\ Held("a1") /\ Held("b2") /\ jar["a1"].at # jar["b2"].at
    /\ session[1].user = NoUser

(***************************************************************************)
(* A callback that arrives after the session has logged in again.          *)
(***************************************************************************)
\* The callback answers a check-totp or check-u2f call of a session whose
\* last request since, and the last request of all, was op.
LateAfter(r, op) ==
    /\ r \in Answered /\ r.op \in Checks
    /\ trail.op = op /\ trail.sess = r.sess

\* C22: the callback of a check-totp or check-u2f call that runs after the
\* session has logged in again leaves that login gated if it was gated, and
\* one that runs after the session has logged out leaves the session's
\* record as it was.
C22_LateCallback ==
    [][\A r \in inflight :
        /\ (LateAfter(r, "login") /\ session[r.sess].require2fa) =>
                session'[r.sess].require2fa
        /\ LateAfter(r, "logout") => session'[r.sess] = session[r.sess]]_vars

(***************************************************************************)
(* Enrollment changes of a gated session.                                  *)
(***************************************************************************)
\* The step handles a request of a session that is logged in with its
\* password and has not presented a second factor.
GatedRequest == Answered = {} /\ trail'.sess \in Sessions /\ session[trail'.sess].require2fa

\* C23: a request of a gated session leaves the enrollments of every
\* account, Pending and Active, as they were.
C23_GatedCannotEnroll ==
    [][GatedRequest => registry' = registry]_vars

====
